---- MODULE Spec2Model ----
(***************************************************************************)
(* Model of src/crypto_bot.py (class CryptoBot): the candle aggregation    *)
(* done by the WebSocket thread (on_message, finalize_candle,             *)
(* update_current_candle), the main thread of run() (historical fetch,    *)
(* statistics loop, final save, stop) and the non-reentrant lock          *)
(* data_lock that both use.                                               *)
(*                                                                         *)
(* Time is epoch milliseconds.  The historical rows carry UTC minute       *)
(* starts and the live candles carry local minute starts; the model takes *)
(* the process time zone to be UTC, so that both are the same number.     *)
(* live_trades (a bounded diagnostic deque that nothing reads back) is    *)
(* not modelled.                                                          *)
(***************************************************************************)
EXTENDS Integers, Sequences, FiniteSets, TLC

\* ---------------------------------------------------------------- bounds
MaxTrades == 3      \* trades parsed by on_message in one run
MaxMinute == 2      \* live minutes are BaseMinute .. BaseMinute + MaxMinute
MaxPrice  == 2      \* trade prices are 1 .. MaxPrice
MaxMsgLen == 2      \* trades in one WebSocket message
MaxLoads  == 1      \* load_historical_data calls by a client of the class
MaxRows   == 2      \* a client asks get_latest_data for -MaxRows .. MaxRows rows
MaxVolume == 2      \* trade volumes of the candle arithmetic are 1 .. MaxVolume

\* ------------------------------------------------------ program constants
SAVE_EVERY  == 10       \* finalize_candle: len(historical_data) % 10
MsPerMinute == 60000    \* replace(second=0, microsecond=0) on a ms timestamp
None        == -1       \* Python None, for a timestamp or a price
NaN         == -2       \* the float NaN that astype(float) makes of None

\* The historical source answers with no row, with one row, or with one row
\* less than the save cadence (the first live candle is then the SAVE_EVERY-th
\* row).  The run starts in minute BaseMinute, late enough for the longest
\* seed to begin at a minute >= 0.
SeedLens   == {0, 1, SAVE_EVERY - 1}
BaseMinute == SAVE_EVERY
Minutes    == BaseMinute .. (BaseMinute + MaxMinute)
\* Every trade comes in the last millisecond of its minute.
Offsets    == {MsPerMinute - 1}
Prices     == 1 .. MaxPrice
Volumes    == {1}

Trades    == [T : {m * MsPerMinute + o : m \in Minutes, o \in Offsets},
              p : Prices, v : Volumes]
Malformed == [T |-> None, p |-> None, v |-> None]

\* The trades the candle arithmetic is checked on: volumes that differ.
Sizes       == 1 .. MaxVolume
SizedTrades == [T : {m * MsPerMinute + o : m \in Minutes, o \in Offsets},
                p : Prices, v : Sizes]

VARIABLES
    historical_data,    \* self.historical_data: the rows of the DataFrame
    current_candle,     \* self.current_candle: <<>> is None, <<c>> a dict
    candle_start_time,  \* self.candle_start_time, or None
    running,            \* self.running
    data_lock,          \* self.data_lock: "free" or the thread holding it
    ws_open,            \* the WebSocket connection delivers messages
    pc,                 \* position of the main and of the WebSocket thread
    pending,            \* number of entries of the current message not yet read
    trade,              \* the trade on_message is handling (Malformed: none)
    saved,              \* rows of the CSV file written last
    \* history variables, read by the properties only
    seeded,             \* historical_data was replaced by a fetch or a load
    nTrades,            \* trades parsed so far
    lastT,              \* timestamp of the trade parsed last
    mono,               \* the parsed timestamps were non-decreasing so far
    seqBefore,          \* historical_data when the current trade was parsed
    sigOpen,            \* bucket open with trades when the stop signal came
    nLoads,             \* load_historical_data calls so far
    fetch_outcome,      \* how fetch_historical_data ended, "none" before it
    contrib,            \* price and volume of the trades merged into
                        \* current_candle, in the order of their arrival
    own,                \* a trade of current_candle's own minute is among them
    nLive,              \* candles appended by finalize_candle so far
    last_read           \* what a client's read returned last and whether it
                        \* repeated the read before it; NoRead once the
                        \* engine has changed since

vars == <<historical_data, current_candle, candle_start_time, running,
          data_lock, ws_open, pc, pending, trade, saved,
          seeded, nTrades, lastT, mono, seqBefore, sigOpen, nLoads,
          fetch_outcome, contrib, own, nLive, last_read>>

engine == <<historical_data, current_candle, candle_start_time>>
counters == <<seeded, nTrades, lastT, mono, seqBefore, sigOpen, nLoads,
              fetch_outcome>>
history == <<counters, contrib, own, nLive, last_read>>

\* No read of a client is on record.
NoRead == [kind |-> "none", rows |-> 0, value |-> <<>>, again |-> FALSE]

\* ------------------------------------------------------- pure functions

\* datetime.fromtimestamp(T / 1000).replace(second=0, microsecond=0)
current_minute(ts) == ts - (ts % MsPerMinute)

\* One kline row of the historical source for the minute m.
SeedRow(m) == [timestamp |-> m * MsPerMinute, open |-> 1, high |-> 1,
               low |-> 1, close |-> 1, volume |-> 1, turnover |-> 1]

\* The response of get_kline: n rows ending at minute last, newest first.
Klines(n, last) == [i \in 1 .. n |-> SeedRow(last - i + 1)]

RECURSIVE InsertRow(_, _)
InsertRow(row, s) ==
    IF s = <<>> THEN <<row>>
    ELSE IF row.timestamp < Head(s).timestamp THEN <<row>> \o s
    ELSE <<Head(s)>> \o InsertRow(row, Tail(s))

\* df.sort_values('timestamp').reset_index(drop=True)
RECURSIVE sort_values(_)
sort_values(s) ==
    IF s = <<>> THEN <<>> ELSE InsertRow(Head(s), sort_values(Tail(s)))

Max_smaller(a, b) == IF a >= b THEN b ELSE a
Max(a, b) == IF a >= b THEN a ELSE b
Min(a, b) == IF a <= b THEN a ELSE b

\* The dict initialize_current_candle builds at the wall-clock minute now.
initialize_current_candle(now) ==
    [timestamp |-> now, open |-> None, high |-> None, low |-> None,
     close |-> None, volume |-> 0, turnover |-> 0, trade_count |-> 0]

\* The dict on_message builds for the first trade of a new minute.
NewCandle(minute, price, volume) ==
    [timestamp |-> minute, open |-> price, high |-> price, low |-> price,
     close |-> price, volume |-> volume, turnover |-> price * volume,
     trade_count |-> 1]

\* The body of update_current_candle.
Updated_plus_price(c, price, volume) ==
    [c EXCEPT !.open = IF c.open = None THEN price ELSE @,
              !.high = IF c.open = None THEN price ELSE Max(@, price),
              !.low = IF c.open = None THEN price ELSE Min(@, price),
              !.close = price,
              !.volume = @ + volume,
              !.turnover = @ + price,
              !.trade_count = @ + 1]
Updated(c, price, volume) ==
    [c EXCEPT !.open = IF c.open = None THEN price ELSE @,
              !.high = IF c.open = None THEN price ELSE Max(@, price),
              !.low = IF c.open = None THEN price ELSE Min(@, price),
              !.close = price,
              !.volume = @ + volume,
              !.turnover = @ + price * volume,
              !.trade_count = @ + 1]

\* new_row of finalize_candle: the candle without its trade_count.
new_row(c) == [timestamp |-> c.timestamp, open |-> c.open, high |-> c.high,
              low |-> c.low, close |-> c.close, volume |-> c.volume,
              turnover |-> c.turnover]

\* pd.concat([self.historical_data, new_row], ignore_index=True)
concat_prepend(df, row) == <<row>> \o df
concat(df, row) == Append(df, row)

\* DataFrame.tail(n) of pandas: df.iloc[0:0] for n = 0 and df.iloc[-n:]
\* otherwise, which for a negative n is every row but the first -n.
tail(df, n) ==
    IF n = 0 THEN <<>>
    ELSE IF n > 0 THEN SubSeq(df, Max(Len(df) - n + 1, 1), Len(df))
    ELSE SubSeq(df, 1 - n, Len(df))

\* What get_latest_data(rows) returns.
latest_data(df, rows) == IF Len(df) > 0 THEN tail(df, rows) ELSE <<>>

\* What get_current_candle_info() returns: a copy of the dict, or None.
candle_info(cc) == cc

\* self.current_candle after self.current_candle.copy(): the dict as it was.
copy_source_cleared(cc) == <<>>
copy_source(cc) == cc

\* on_message's test for a new candle.
IsNewCandle_ge(start, minute) == start = None \/ minute >= start
IsNewCandle(start, minute) == start = None \/ minute > start

\* ------------------------------------------------------------------ Init
Init ==
    /\ historical_data = <<>>
    /\ current_candle = <<>>
    /\ candle_start_time = None
    /\ running = FALSE
    /\ data_lock = "free"
    /\ ws_open = FALSE
    /\ pc = [main |-> "start", ws |-> "off"]
    /\ pending = 0
    /\ trade = Malformed
    /\ saved = <<>>
    /\ seeded = FALSE
    /\ nTrades = 0
    /\ lastT = 0
    /\ mono = TRUE
    /\ seqBefore = <<>>
    /\ sigOpen = None
    /\ nLoads = 0
    /\ fetch_outcome = "none"
    /\ contrib = <<>>
    /\ own = FALSE
    /\ nLive = 0
    /\ last_read = NoRead

Goto(t, where) == pc' = [pc EXCEPT ![t] = where]

\* The process has not exited: the daemon WebSocket thread still runs.
Alive == pc.main # "done"

\* --------------------------------------------------- save_historical_data
\* The positions at which a thread calls save_historical_data, the position
\* inside its "with self.data_lock" block, and where the call returns to.
SavePcs == {"fetch_save", "final_save", "cadence_save"}
WritePc(at) == CASE at = "fetch_save" -> "fetch_write"
                 [] at = "final_save" -> "final_write"
                 [] at = "cadence_save" -> "cadence_write"
ReturnPc(at) == CASE at = "fetch_write" -> "start_stream"
                  [] at = "final_write" -> "stop"
                  [] at = "cadence_write" -> "start_new"

\* "with self.data_lock:" of save_historical_data.  threading.Lock is not
\* reentrant: a thread that already holds it waits here like any other.
save_historical_data_lock(t) ==
    /\ Alive
    /\ pc[t] \in SavePcs
    /\ data_lock = "free"
    /\ data_lock' = t
    /\ Goto(t, WritePc(pc[t]))
    /\ UNCHANGED <<engine, running, ws_open, pending, trade, saved, history>>

\* to_csv inside the with block, then the release of the lock.
save_historical_data_write(t) ==
    /\ Alive
    /\ pc[t] \in {WritePc(at) : at \in SavePcs}
    /\ data_lock = t
    /\ saved' = IF historical_data # <<>> THEN historical_data ELSE saved
    /\ data_lock' = "free"
    /\ Goto(t, ReturnPc(pc[t]))
    /\ UNCHANGED <<engine, running, ws_open, pending, trade, history>>

\* ------------------------------------------------------------ main thread
\* How the call of the historical source ends: retCode 0 with rows that are
\* all complete and numeric, a non-zero retCode, an exception of the client,
\* retCode 0 with a non-numeric field in a row (astype or to_numeric raises),
\* retCode 0 with a row that lacks its last field or has null for it.
Outcomes == {"ok", "retCode", "raise", "bad_row", "short_row"}
Installs == {"ok", "short_row"}

\* pd.DataFrame(klines, columns=[...]) and astype(float) on a list whose
\* first row lacks its turnover: the row is padded with None, which astype
\* turns into NaN.
padded(rows) ==
    [i \in DOMAIN rows |-> IF i = 1 THEN [rows[i] EXCEPT !.turnover = NaN]
                           ELSE rows[i]]

\* self.historical_data after fetch_historical_data: df is assigned after the
\* retCode test and after the conversions of the rows.
fetched(df, outcome, rows) ==
    IF outcome = "ok" THEN sort_values(rows)
    ELSE IF outcome = "short_row" THEN sort_values(padded(rows))
    ELSE df

\* run(), step 1: fetch_historical_data.  The rows end at the minute in
\* progress at the fetch (BaseMinute).  A call that fails returns None, and
\* so does the call that installs an empty list, which raises afterwards at
\* df['timestamp'].iloc[0]; run() then goes to its finally block.
fetch_historical_data ==
    /\ pc.main = "start"
    /\ data_lock = "free"
    /\ \E outcome \in Outcomes, n \in SeedLens :
          /\ historical_data' =
                fetched(historical_data, outcome, Klines(n, BaseMinute))
          /\ seeded' = (seeded \/ outcome \in Installs)
          /\ fetch_outcome' = outcome
          /\ Goto("main", IF outcome \in Installs /\ n > 0 THEN "fetch_save"
                          ELSE "final_save")
    /\ UNCHANGED <<current_candle, candle_start_time, running, data_lock,
                   ws_open, pending, trade, saved,
                   nTrades, lastT, mono, seqBefore, sigOpen, nLoads,
                   contrib, own, nLive, last_read>>

\* The wall-clock minute is not before the last row of the historical source.
Clock == {m * MsPerMinute : m \in Minutes}
LastSeedTime == IF historical_data = <<>> THEN 0
                ELSE historical_data[Len(historical_data)].timestamp

\* run(), step 2: start_live_stream, with initialize_current_candle at the
\* wall-clock minute now.
start_live_stream ==
    /\ pc.main = "start_stream"
    /\ \E now \in Clock :
          /\ now >= LastSeedTime
          /\ candle_start_time' = now
          /\ current_candle' = <<initialize_current_candle(now)>>
    /\ running' = TRUE
    /\ ws_open' = TRUE
    /\ pc' = [main |-> "loop", ws |-> "idle"]
    /\ UNCHANGED <<historical_data, data_lock, pending, trade, saved, history>>

\* run(), step 3: "while self.running", then time.sleep(10).
run_loop ==
    /\ pc.main = "loop"
    /\ Goto("main", IF running THEN "read_cur" ELSE "final_save")
    /\ UNCHANGED <<engine, running, data_lock, ws_open, pending, trade,
                   saved, history>>

\* get_current_candle_info(): a copy taken under the lock.
get_current_candle_info ==
    /\ pc.main = "read_cur"
    /\ data_lock = "free"
    /\ Goto("main", "read_latest")
    /\ UNCHANGED <<engine, running, data_lock, ws_open, pending, trade,
                   saved, history>>

\* get_latest_data(3): the tail taken under the lock.
get_latest_data ==
    /\ pc.main = "read_latest"
    /\ data_lock = "free"
    /\ Goto("main", "loop")
    /\ UNCHANGED <<engine, running, data_lock, ws_open, pending, trade,
                   saved, history>>

HasTrades(cc) == cc # <<>> /\ cc[1].open # None

\* KeyboardInterrupt during time.sleep(10) of the loop: control goes to the
\* finally block.
KeyboardInterrupt ==
    /\ pc.main = "loop"
    /\ Goto("main", "final_save")
    /\ sigOpen' = IF HasTrades(current_candle) THEN current_candle[1].timestamp
                  ELSE None
    /\ UNCHANGED <<engine, running, data_lock, ws_open, pending, trade,
                   saved, seeded, nTrades, lastT, mono, seqBefore, nLoads,
                   fetch_outcome,
                   contrib, own, nLive, last_read>>

\* stop_live_stream(): running = False, ws.close() and join(timeout=5); then
\* run() returns and the process exits, which ends the daemon thread wherever
\* it is.  The steps the callback in flight takes during the join touch
\* neither running nor the connection: they are the steps taken before this
\* one.
stop_live_stream ==
    /\ pc.main = "stop"
    /\ running' = FALSE
    /\ ws_open' = FALSE
    /\ Goto("main", "done")
    /\ UNCHANGED <<engine, data_lock, pending, trade, saved, history>>

\* ------------------------------------------------------- WebSocket thread
\* on_message is called with a publicTrade message of 1 .. MaxMsgLen entries.
\* What an entry holds is drawn when the loop reads it.
on_message ==
    /\ Alive
    /\ pc.ws = "idle"
    /\ ws_open
    /\ \E n \in 1 .. MaxMsgLen :
          /\ nTrades + n <= MaxTrades
          /\ pending' = n
    /\ Goto("ws", "trade")
    /\ UNCHANGED <<engine, running, data_lock, ws_open, trade, saved, history>>

\* The end of "for trade in trades".
EndOfMessage ==
    /\ Alive
    /\ pc.ws = "trade"
    /\ pending = 0
    /\ Goto("ws", "idle")
    /\ UNCHANGED <<engine, running, data_lock, ws_open, pending, trade,
                   saved, history>>

\* An entry that does not convert (a missing or non-numeric field) raises;
\* the except clause of on_message logs it and the call returns, the rest of
\* the message unread.
MalformedTrade ==
    /\ Alive
    /\ pc.ws = "trade"
    /\ pending > 0
    /\ pending' = 0
    /\ Goto("ws", "idle")
    /\ UNCHANGED <<engine, running, data_lock, ws_open, trade, saved, history>>

\* One turn of "for trade in trades": the conversions, then the test for a
\* new candle.  The entry read is one of the trades of S.
NextTradeOf(S) ==
    /\ Alive
    /\ pc.ws = "trade"
    /\ pending > 0
    /\ \E t \in S :
          /\ trade' = t
          /\ mono' = (mono /\ (nTrades = 0 \/ t.T >= lastT))
          /\ lastT' = t.T
          /\ Goto("ws", IF IsNewCandle(candle_start_time, current_minute(t.T))
                        THEN IF current_candle # <<>> THEN "finalize"
                             ELSE "start_new"
                        ELSE "update")
    /\ pending' = pending - 1
    /\ nTrades' = nTrades + 1
    /\ seqBefore' = historical_data
    /\ UNCHANGED <<engine, running, data_lock, ws_open, saved,
                   seeded, sigOpen, nLoads, fetch_outcome, contrib, own,
                   nLive, last_read>>

NextTrade == NextTradeOf(Trades)

\* finalize_candle(): under the lock, append the candle if it has a trade,
\* and on every SAVE_EVERY-th row call save_historical_data with the lock
\* still held.
finalize_candle ==
    /\ Alive
    /\ pc.ws = "finalize"
    /\ data_lock = "free"
    /\ IF HasTrades(current_candle)
       THEN /\ historical_data' = concat(historical_data,
                                         new_row(current_candle[1]))
            /\ nLive' = nLive + 1
            /\ last_read' = NoRead
            /\ IF Len(historical_data') % SAVE_EVERY = 0
               THEN data_lock' = "ws" /\ Goto("ws", "cadence_save")
               ELSE data_lock' = "free" /\ Goto("ws", "start_new")
       ELSE /\ Goto("ws", "start_new")
            /\ UNCHANGED <<historical_data, data_lock, nLive, last_read>>
    /\ UNCHANGED <<current_candle, candle_start_time, running, ws_open,
                   pending, trade, saved, counters, contrib, own>>

\* "Start new candle": the two assignments after finalize_candle returned,
\* made without the lock.
StartNewCandle ==
    /\ Alive
    /\ pc.ws = "start_new"
    /\ candle_start_time' = current_minute(trade.T)
    /\ current_candle' = <<NewCandle(current_minute(trade.T), trade.p, trade.v)>>
    /\ contrib' = <<[p |-> trade.p, v |-> trade.v]>>
    /\ own' = TRUE
    /\ last_read' = NoRead
    /\ trade' = Malformed
    /\ Goto("ws", "trade")
    /\ UNCHANGED <<historical_data, running, data_lock, ws_open, pending,
                   saved, counters, nLive>>

\* update_current_candle(price, volume), under the lock.
update_current_candle ==
    /\ Alive
    /\ pc.ws = "update"
    /\ data_lock = "free"
    /\ current_candle' = <<Updated(current_candle[1], trade.p, trade.v)>>
    /\ contrib' = Append(contrib, [p |-> trade.p, v |-> trade.v])
    /\ own' = (own \/ current_minute(trade.T) = candle_start_time)
    /\ last_read' = NoRead
    /\ trade' = Malformed
    /\ Goto("ws", "trade")
    /\ UNCHANGED <<historical_data, candle_start_time, running, data_lock,
                   ws_open, pending, saved, counters, nLive>>

\* The server closes the connection: on_close, and run_forever returns.
on_close ==
    /\ Alive
    /\ pc.ws = "idle"
    /\ ws_open
    /\ running' = FALSE
    /\ ws_open' = FALSE
    /\ Goto("ws", "closed")
    /\ UNCHANGED <<engine, data_lock, pending, trade, saved, history>>

Threads == {"main", "ws"}

Next ==
    \/ fetch_historical_data
    \/ start_live_stream
    \/ run_loop
    \/ get_current_candle_info
    \/ get_latest_data
    \/ KeyboardInterrupt
    \/ stop_live_stream
    \/ \E t \in Threads : save_historical_data_lock(t)
    \/ \E t \in Threads : save_historical_data_write(t)
    \/ on_message
    \/ EndOfMessage
    \/ MalformedTrade
    \/ NextTrade
    \/ finalize_candle
    \/ StartNewCandle
    \/ update_current_candle
    \/ on_close

\* The program as run by "bot.run()".
Spec == Init /\ [][Next]_vars

\* ---------------------------------------------- clients of the class
\* A client that calls start_live_stream() without fetch_historical_data().
start_live_stream_unseeded ==
    /\ pc.main = "start"
    /\ Goto("main", "start_stream")
    /\ UNCHANGED <<engine, running, data_lock, ws_open, pending, trade,
                   saved, history>>

\* A client that calls load_historical_data() on the file written last:
\* read_csv, to_datetime, and the assignment under the lock.
load_historical_data ==
    /\ Alive
    /\ nLoads < MaxLoads
    /\ saved # <<>>
    /\ data_lock = "free"
    /\ historical_data' = saved
    /\ seeded' = TRUE
    /\ nLoads' = nLoads + 1
    /\ last_read' = NoRead
    /\ UNCHANGED <<current_candle, candle_start_time, running, data_lock,
                   ws_open, pc, pending, trade, saved,
                   nTrades, lastT, mono, seqBefore, sigOpen, fetch_outcome,
                   contrib, own, nLive>>

\* The numbers of rows a client asks for.
Rows == (0 - MaxRows) .. MaxRows

\* A client that calls get_latest_data(rows) while the stream runs.
client_get_latest_data(rows) ==
    /\ pc.main = "loop"
    /\ data_lock = "free"
    /\ last_read' = [kind |-> "latest", rows |-> rows,
                     value |-> latest_data(historical_data, rows),
                     again |-> (last_read.kind = "latest"
                                /\ last_read.rows = rows)]
    /\ UNCHANGED <<engine, running, data_lock, ws_open, pc, pending, trade,
                   saved, counters, contrib, own, nLive>>

\* A client that calls get_current_candle_info() while the stream runs.
client_get_current_candle_info ==
    /\ pc.main = "loop"
    /\ data_lock = "free"
    /\ last_read' = [kind |-> "current", rows |-> 0,
                     value |-> candle_info(current_candle),
                     again |-> (last_read.kind = "current")]
    /\ current_candle' = copy_source(current_candle)
    /\ UNCHANGED <<historical_data, candle_start_time, running, data_lock,
                   ws_open, pc, pending, trade, saved, counters, contrib, own,
                   nLive>>

NextLive ==
    \/ Next
    \/ start_live_stream_unseeded

\* run(), or a client that starts the live stream on an empty sequence.
SpecLive == Init /\ [][NextLive]_vars

NextApi ==
    \/ Next
    \/ start_live_stream_unseeded
    \/ load_historical_data

\* The class as used by any client of its public methods.
SpecApi == Init /\ [][NextApi]_vars

\* ----------------------------------------------------- candle arithmetic
\* The stream has just been started on an empty sequence, at any wall-clock
\* minute.
InitCandle ==
    /\ historical_data = <<>>
    /\ \E now \in Clock :
          /\ candle_start_time = now
          /\ current_candle = <<initialize_current_candle(now)>>
    /\ running = TRUE
    /\ data_lock = "free"
    /\ ws_open = TRUE
    /\ pc = [main |-> "loop", ws |-> "idle"]
    /\ pending = 0
    /\ trade = Malformed
    /\ saved = <<>>
    /\ seeded = FALSE
    /\ nTrades = 0
    /\ lastT = 0
    /\ mono = TRUE
    /\ seqBefore = <<>>
    /\ sigOpen = None
    /\ nLoads = 0
    /\ fetch_outcome = "none"
    /\ contrib = <<>>
    /\ own = FALSE
    /\ nLive = 0
    /\ last_read = NoRead

NextTradeSized == NextTradeOf(SizedTrades)

NextCandle ==
    \/ on_message
    \/ EndOfMessage
    \/ NextTradeSized
    \/ finalize_candle
    \/ StartNewCandle
    \/ update_current_candle

\* The WebSocket thread alone, fed with trades of any volume.
SpecCandle == InitCandle /\ [][NextCandle]_vars

NextRead ==
    \/ on_message
    \/ EndOfMessage
    \/ MalformedTrade
    \/ NextTrade
    \/ finalize_candle
    \/ StartNewCandle
    \/ update_current_candle
    \/ \E rows \in Rows : client_get_latest_data(rows)
    \/ client_get_current_candle_info

\* A client that has started the stream on an empty sequence and reads the
\* latest candles and the current candle at will instead of calling run().
SpecRead == InitCandle /\ [][NextRead]_vars

\* ================================================================ claims
StrictlyIncreasing(s) ==
    \A i \in 1 .. (Len(s) - 1) : s[i].timestamp < s[i + 1].timestamp

IsPrefix(s, t) == Len(s) <= Len(t) /\ \A i \in 1 .. Len(s) : s[i] = t[i]

\* The WebSocket thread completes the ingest of the trade it parsed.
IngestReturns == pc.ws \in {"update", "start_new"} /\ pc'.ws = "trade"

\* C1: Late-trade drop.  An ingest of a trade whose minute is strictly before
\* the start of the open bucket (a bucket that has a trade) leaves the
\* finalized sequence and every field of the in-progress bucket unchanged.
C1_LateTradeDropped ==
    [][(/\ IngestReturns
        /\ HasTrades(current_candle)
        /\ current_minute(trade.T) < candle_start_time)
       => (/\ historical_data' = historical_data
           /\ current_candle' = current_candle)]_vars

\* C2: No call blocks indefinitely.  No thread ever waits for the exclusive
\* region while it holds the region itself (a wait nothing can end, with the
\* region held forever).
C2_NoCallBlocksForever ==
    \A t \in Threads : ~(data_lock = t /\ pc[t] \in SavePcs)

\* C3: Monotonic bucketing.  Without a seed, and with trade timestamps that
\* were non-decreasing so far, the bucket starts of the finalized sequence
\* are strictly increasing (so no bucket start occurs twice).
C3_MonotonicBucketing ==
    (~seeded /\ mono) => StrictlyIncreasing(historical_data)

C3_Witness ==
    /\ ~seeded
    /\ mono
    /\ nTrades = MaxTrades
    /\ Len(historical_data) >= 2

\* C4: Seed/live boundary.  After a seed that is strictly increasing by
\* bucket start, followed by ingested trades, the whole sequence stays
\* strictly increasing by bucket start.
C4_SeedLiveBoundary ==
    (seeded /\ nLoads = 0) => StrictlyIncreasing(historical_data)

\* C5: Append-only after seeding.  Once seeded, the sequence as it was when
\* an ingest began is a prefix of the sequence during and after that ingest,
\* which is at most one candle longer.
C5_AppendOnly ==
    (seeded /\ nTrades > 0)
    => /\ IsPrefix(seqBefore, historical_data)
       /\ Len(historical_data) <= Len(seqBefore) + 1

C5_Witness ==
    /\ seeded
    /\ nTrades > 1
    /\ pc.ws = "trade"
    /\ Len(seqBefore) > 1
    /\ historical_data = Append(seqBefore, historical_data[Len(historical_data)])

\* The open bucket has been appended to the sequence and is still the
\* in-progress bucket: the middle of a rollover.
MidRollover ==
    /\ pc.ws = "start_new"
    /\ HasTrades(current_candle)
    /\ historical_data # <<>>
    /\ historical_data[Len(historical_data)] = new_row(current_candle[1])

\* C6: Consistent reads.  A read of the current candle or of the latest
\* candles never sees the engine in the middle of a rollover, with an
\* in-progress bucket that is already a candle of the finalized sequence.
C6_ConsistentReads ==
    [][(\/ pc.main = "read_cur" /\ pc'.main = "read_latest"
        \/ pc.main = "read_latest" /\ pc'.main = "loop")
       => ~MidRollover]_vars

\* C7: Bucket from the trade's own timestamp.  The bucket that holds the first
\* trade ingested after the stream started begins at that trade's timestamp
\* truncated to the minute.
C7_BucketFromTrade ==
    [][(IngestReturns /\ nTrades = 1)
       => current_candle'[1].timestamp = current_minute(trade.T)]_vars

\* C8: Shutdown flush.  When the process has exited after a stop signal that
\* came while a bucket with a trade was open, the file saved last holds a
\* candle of that bucket.
C8_ShutdownFlush ==
    (pc.main = "done" /\ sigOpen # None)
    => \E i \in DOMAIN saved : saved[i].timestamp = sigOpen

\* C9: No ingest after shutdown begins.  From the moment the final save has
\* the region, no step changes the in-progress bucket or the sequence.
C9_NoIngestAfterShutdown ==
    [][pc.main \in {"final_write", "stop", "done"}
       => (/\ historical_data' = historical_data
           /\ current_candle' = current_candle)]_vars

\* C10: Seed conflict.  A wholesale replacement of the sequence invoked after
\* a trade has been ingested leaves the sequence and the in-progress bucket
\* unchanged.
C10_SeedConflict ==
    [][(nLoads' = nLoads + 1 /\ nTrades > 0)
       => (/\ historical_data' = historical_data
           /\ current_candle' = current_candle)]_vars

\* The step is a get_latest_data(rows) call of a client.
LatestRead == last_read'.kind = "latest" /\ last_read' # last_read

\* C11: get_latest_data(n) returns the last min(n, length) rows of the
\* sequence, in sequence order, when n > 0, and no row when n <= 0, every
\* negative n included.
C11_LatestN ==
    [][LatestRead
       => LET n == last_read'.rows
              len == Len(historical_data)
          IN  last_read'.value =
                 IF n <= 0 THEN <<>>
                 ELSE [i \in 1 .. Min(n, len) |->
                          historical_data[len - Min(n, len) + i]]]_vars

\* finalize_candle has just appended current_candle: the last row of
\* historical_data is the candle made of the trades in contrib.
JustFinalized ==
    /\ pc.ws \in {"start_new", "cadence_save"}
    /\ HasTrades(current_candle)

LastRow == historical_data[Len(historical_data)]

RECURSIVE SumOver(_, _)
SumOver(S, f) ==
    IF S = {} THEN 0
    ELSE LET x == CHOOSE y \in S : TRUE IN f[x] + SumOver(S \ {x}, f)

\* The number of times the trade x is in s, and the sums of price * volume
\* and of volume over the trades of s counted that many times: sums that do
\* not depend on the order of s.
Times(s, x) == Cardinality({i \in DOMAIN s : s[i] = x})
Range(s) == {s[i] : i \in DOMAIN s}
TurnoverOf(s) == SumOver(Range(s), [x \in Range(s) |-> x.p * x.v * Times(s, x)])
VolumeOf(s) == SumOver(Range(s), [x \in Range(s) |-> x.v * Times(s, x)])

PricesOf(s) == {s[i].p : i \in DOMAIN s}

\* C13: every candle finalized from ingested trades has low <= min(open,
\* close) and high >= max(open, close); open is the price of the first trade
\* merged into the bucket, close that of the last, high the largest and low
\* the smallest of their prices.
C13_OHLC ==
    JustFinalized
    => /\ LastRow.low <= LastRow.open /\ LastRow.low <= LastRow.close
       /\ LastRow.high >= LastRow.open /\ LastRow.high >= LastRow.close
       /\ LastRow.open = contrib[1].p
       /\ LastRow.close = contrib[Len(contrib)].p
       /\ \A q \in PricesOf(contrib) : LastRow.low <= q /\ q <= LastRow.high
       /\ LastRow.high \in PricesOf(contrib)
       /\ LastRow.low \in PricesOf(contrib)

C13_Witness ==
    /\ JustFinalized
    /\ Len(contrib) = 2
    /\ LastRow.high > LastRow.open
    /\ LastRow.low < LastRow.close

\* C14: no candle is made up: every candle appended by live ingestion has the
\* bucket of at least one ingested trade, so a bucket in which no trade
\* arrived is absent from the sequence.
C14_NoSyntheticCandle == JustFinalized => own

\* The step is a read of a client.
ReadStep == last_read' # last_read /\ last_read'.kind # "none"

\* C15: a read of a client leaves the engine as it is, and a read that
\* repeats the read before it, with no ingest, seed or finalize in between,
\* returns what that read returned.
C15_IdempotentSnapshot ==
    [][ReadStep
       => /\ engine' = engine
          /\ last_read'.again => last_read'.value = last_read.value]_vars

C15_Witness ==
    /\ last_read.again
    /\ last_read.value # <<>>
    /\ HasTrades(current_candle)
    /\ Len(historical_data) >= 2

\* C16: a cadence save is triggered on every SAVE_EVERY-th candle appended
\* by live ingestion, counted from the start of live ingestion whatever the
\* length of the seed: whenever the save is triggered, the number of live
\* candles is a multiple of SAVE_EVERY.
C16_PersistenceCadence ==
    pc.ws = "cadence_save" => nLive % SAVE_EVERY = 0

\* C17: a malformed entry of a message is the only one skipped: the entries
\* that follow it in the same message are still read.
C17_MalformedIsolation ==
    [][(pending' < pending /\ nTrades' = nTrades)
       => pending' = pending - 1]_vars

\* C18: a historical fetch that fails or meets a malformed row (non-zero
\* retCode, exception, non-numeric or missing field) leaves the sequence as
\* it was before the call, the empty sequence of the constructor, and the
\* live stream is never started: no trade is ingested in that run.
C18_SeedAllOrNothing ==
    fetch_outcome \notin {"none", "ok"}
    => /\ historical_data = <<>>
       /\ current_candle = <<>>
       /\ pc.ws = "off"
       /\ ~running
       /\ ~ws_open
       /\ nTrades = 0

\* C19: while a save writes the sequence to storage, no thread holds
\* data_lock.
C19_NoLockDuringWrite ==
    \A t \in Threads :
       pc[t] \in {WritePc(at) : at \in SavePcs} => data_lock = "free"

\* C20: once finalize_candle has appended the candle of the open bucket,
\* there is no open bucket with trades any more.
C20_FinalizeResets ==
    [][nLive' = nLive + 1 => ~HasTrades(current_candle')]_vars

====
